---- MODULE Spec2Model ----
(***************************************************************************)
(* Water blending optimizer (GRACIA-R/Blending.py).                        *)
(*                                                                         *)
(* Two entry points are modelled:                                          *)
(*   impl = "optimizer": app.py builds WaterBlendOptimizer(df_edit, ...)   *)
(*                       and calls optimize(Demand), then applies the      *)
(*                       treatment train (unit operation, reverse osmosis).*)
(*   impl = "ui":        ui.py render_ui calls optimize_blending(edited_df,*)
(*                       demand) and then runs the demand sweep.           *)
(*                                                                         *)
(* Units (all quantities are exact integers or exact rationals):           *)
(*   flow, Qmax, demand : L/s                                              *)
(*   As                 : 0.001 mg/L      (As_ref 0.025 -> 25)             *)
(*   Cl                 : 0.01  mg/L      (Cl_ref 320 -> 32000, 35 -> 3500)*)
(*   weights            : tenths          (0.2 -> 2, 0.8 -> 8)             *)
(*   efficiencies       : tenths          (0.90 -> 9, the literal 1 -> 10) *)
(* A concentration is the rational [num, den]; den = 0 is the result of    *)
(* dividing by a zero total flow.  Floating-point rounding is not          *)
(* modelled.                                                               *)
(***************************************************************************)
EXTENDS Integers, Sequences, FiniteSets

VARIABLES inp, heap, self_df, pc, res, stages, Ds, sweep_i, As_list,
          Cl_list, sweep_log, chart

vars == <<inp, heap, self_df, pc, res, stages, Ds, sweep_i, As_list,
          Cl_list, sweep_log, chart>>

-----------------------------------------------------------------------------
(* Bounds of the explored inputs *)

MaxQmax == 2

MaxConc == 1

MaxWeight == 1

MaxDemand == 5

(* Program constants *)

EpsInv == 1000000

As_ref_default == 25

Cl_ref_optimizer == 32000

Cl_ref_ui == 3500

w_as_ui == 2

w_cl_ui == 8

DemandMinUi == 1

SweepStart == 10

SweepStride == 2

One == 10

CallerRef == 1

FreshRef == 2

-----------------------------------------------------------------------------
(* Generic helpers *)

RECURSIVE SumSeq(_)
SumSeq(s) == IF s = <<>> THEN 0 ELSE Head(s) + SumSeq(Tail(s))

NoTable == [rows |-> <<>>, score |-> <<>>]

NoConc == [num |-> 0, den |-> 1]

RatEq(a, b) == a.num * b.den = b.num * a.den

-----------------------------------------------------------------------------
(* Scoring: score = (w_As*As/As_ref + w_Cl*Cl/Cl_ref) / (avail + 1e-6).     *)
(* Stored as num/den with num = w_As*As*Cl_ref + w_Cl*Cl*As_ref and         *)
(* den = avail*10^6 + 1, i.e. the score times the positive constant         *)
(* As_ref*Cl_ref/10^6, which is the same for every row of one solve.        *)

ScoreOf(row, w) ==
    [num |-> w.w_As * row.As * w.Cl_ref + w.w_Cl * row.Cl * w.As_ref,
     den |-> row.avail * EpsInv + 1]

ComputeScores(rows, w) == [i \in 1..Len(rows) |-> ScoreOf(rows[i], w)]

(* df.copy(): a fresh object; the caller's object is left alone. *)
DfAliasRef(ref) == ref

DfCopyRef(ref) == FreshRef

(* the heap after `local = df.copy(); local["score"] = ...` *)
HeapAfterScoring(h, w) ==
    LET r  == DfCopyRef(CallerRef)
        h1 == [h EXCEPT ![r] = h[CallerRef]]
    IN  [h1 EXCEPT ![r].score = ComputeScores(h1[r].rows, w)]

-----------------------------------------------------------------------------
(* Capacity check *)

Qmax_available(rows) ==
    SumSeq([i \in 1..Len(rows) |-> rows[i].Qmax * rows[i].avail])

CapacityExceededGe(demand, Qa) == demand >= Qa

CapacityExceeded(demand, Qa) == demand > Qa

-----------------------------------------------------------------------------
(* The linear program *)

UpBoundOptimizer(row) == row.Qmax

UpBoundUi(row) == row.Qmax * row.avail

UpBounds(impl, rows) ==
    [i \in 1..Len(rows) |->
        IF impl = "optimizer" THEN UpBoundOptimizer(rows[i])
                              ELSE UpBoundUi(rows[i])]

DemandConstraintLe(total, demand) == total <= demand

DemandConstraint(total, demand) == total = demand

RECURSIVE Boxed(_, _)
Boxed(ub, k) ==
    IF k = 0 THEN {<<>>}
    ELSE {Append(q, x) : q \in Boxed(ub, k - 1), x \in 0..ub[k]}

Feasible(ub, demand) ==
    {q \in Boxed(ub, Len(ub)) : DemandConstraint(SumSeq(q), demand)}

(* Objective value sum(Q[p]*score[p]) as hi + lo/(10^6+1):                  *)
(* hi collects the rows with den = 1, lo the rows with den = 10^6+1.        *)
Cost(q, score) ==
    [hi |-> SumSeq([i \in 1..Len(q) |->
                       IF score[i].den = 1 THEN q[i] * score[i].num ELSE 0]),
     lo |-> SumSeq([i \in 1..Len(q) |->
                       IF score[i].den = 1 THEN 0 ELSE q[i] * score[i].num])]

CostLess(c1, c2) == ((c1.lo - c2.lo) \div (EpsInv + 1)) < (c2.hi - c1.hi)

(* prob.solve(): any optimal solution on the integer grid (the vertices of  *)
(* this LP are integral for integer bounds and demand).                     *)
OptimalAllocs(ub, score, demand) ==
    LET F == Feasible(ub, demand)
    IN  {q \in F : \A r \in F : ~CostLess(Cost(r, score), Cost(q, score))}

-----------------------------------------------------------------------------
(* Concentration aggregation and the outcome of one solve *)

Mass(q, rows, col) ==
    SumSeq([i \in 1..Len(q) |->
               q[i] * (IF col = "As" THEN rows[i].As ELSE rows[i].Cl)])

Raised(kind, built, divided, q) ==
    [status |-> kind, lp_built |-> built, divided |-> divided,
     Q_opt |-> q, Qt |-> SumSeq(q), As_final |-> NoConc, Cl_final |-> NoConc]

Returned(q, rows) ==
    [status |-> "returned", lp_built |-> TRUE, divided |-> TRUE,
     Q_opt |-> q, Qt |-> SumSeq(q),
     As_final |-> [num |-> Mass(q, rows, "As"), den |-> SumSeq(q)],
     Cl_final |-> [num |-> Mass(q, rows, "Cl"), den |-> SumSeq(q)]]

(* sum(...) / Qt: with Qt = 0 the division either raises ZeroDivisionError  *)
(* (Python numbers) or yields nan (numpy float64 columns).                  *)
Aggregate(q, rows) ==
    IF SumSeq(q) = 0
    THEN {Raised("ZeroDivisionError", TRUE, TRUE, q), Returned(q, rows)}
    ELSE {Returned(q, rows)}

SolveOutcomes(impl, table, demand) ==
    IF CapacityExceeded(demand, Qmax_available(table.rows))
    THEN {Raised("ValueError", FALSE, FALSE, <<>>)}
    ELSE UNION {Aggregate(q, table.rows) :
                  q \in OptimalAllocs(UpBounds(impl, table.rows),
                                      table.score, demand)}

NoResult == Raised("none", FALSE, FALSE, <<>>)

-----------------------------------------------------------------------------
(* Treatment train (app.py): unit operation, then reverse osmosis *)

UNIT_OPERATIONS ==
    [n \in {"Sin pretratamiento", "Intercambio ionico", "Adsorcion",
            "Electrocoagulacion", "Biodegradacion", "Precipitacion quimica",
            "Deionizacion capacitiva (CDI)"} |->
        CASE n = "Sin pretratamiento"            -> [As |-> 0, Cl |-> 0]
          [] n = "Intercambio ionico"            -> [As |-> 9, Cl |-> 2]
          [] n = "Adsorcion"                     -> [As |-> 8, Cl |-> 5]
          [] n = "Electrocoagulacion"            -> [As |-> 9, Cl |-> 2]
          [] n = "Biodegradacion"                -> [As |-> 4, Cl |-> 1]
          [] n = "Precipitacion quimica"         -> [As |-> 9, Cl |-> 8]
          [] n = "Deionizacion capacitiva (CDI)" -> [As |-> 8, Cl |-> 6]]

RO_REJECTION == [As |-> 9, Cl |-> 8]

(* c * (1 - e) *)
Reduce(c, e) == [num |-> c.num * (One - e), den |-> c.den * One]

AfterStageSwapped(c, eff) ==
    [As |-> Reduce(c.As, eff.As), Cl |-> Reduce(c.Cl, eff.As)]

AfterStage(c, eff) ==
    [As |-> Reduce(c.As, eff.As), Cl |-> Reduce(c.Cl, eff.Cl)]

StageTable(unit_op, As_f, Cl_f) ==
    LET blend   == [As |-> As_f, Cl |-> Cl_f]
        unit    == AfterStage(blend, UNIT_OPERATIONS[unit_op])
        product == AfterStage(unit, RO_REJECTION)
    IN  <<[Etapa |-> "Mezcla de pozos", As |-> blend.As, Cl |-> blend.Cl],
          [Etapa |-> unit_op,           As |-> unit.As,  Cl |-> unit.Cl],
          [Etapa |-> "Osmosis inversa", As |-> product.As,
                                        Cl |-> product.Cl]>>

-----------------------------------------------------------------------------
(* Demand sweep (ui.py render_ui) *)

(* np.arange(start, stop, step) *)
Arange(start, stop, step) ==
    LET n == IF stop > start THEN (stop - start + step - 1) \div step ELSE 0
    IN  [i \in 1..n |-> start + (i - 1) * step]

SumQmax(rows) == SumSeq([i \in 1..Len(rows) |-> rows[i].Qmax])

UiDefaults ==
    [w_As |-> w_as_ui, w_Cl |-> w_cl_ui,
     As_ref |-> As_ref_default, Cl_ref |-> Cl_ref_ui]

(* `except: pass` goes on with the next demand value *)
NextIndexOnBreak(i, n) == n + 1

NextIndexOnPass(i, n) == i + 1

(* Ds[:n] *)
ChartXTail(ds, n) == SubSeq(ds, Len(ds) - n + 1, Len(ds))

ChartX(ds, n) == SubSeq(ds, 1, n)

-----------------------------------------------------------------------------
(* Inputs *)

Pozo == 1..2

RowsA == [Qmax : 1..MaxQmax, As : 0..MaxConc, Cl : 0..MaxConc,
          avail : {0, 1}]

WeightsA(cl_ref) ==
    [w_As : 0..MaxWeight, w_Cl : 0..MaxWeight,
     As_ref : {As_ref_default}, Cl_ref : {cl_ref}]

(* direct calls of the two solvers on small registries *)
InputsA ==
    [impl : {"optimizer"}, w : WeightsA(Cl_ref_optimizer),
     demand : 0..MaxDemand, rows : [Pozo -> RowsA]]
    \cup
    [impl : {"ui"}, w : WeightsA(Cl_ref_ui),
     demand : 0..MaxDemand, rows : [Pozo -> RowsA]]

(* render_ui with registries large enough for the sweep range *)
SweepQmaxVals == {6, 12}

RowsB == [Qmax : SweepQmaxVals, As : 0..MaxConc, Cl : 0..MaxConc,
          avail : {0, 1}]

InputsB ==
    [impl : {"ui"}, w : {UiDefaults}, demand : {DemandMinUi},
     rows : [Pozo -> RowsB]]

(* the two-source example: W1 cap 10, W2 cap 50, weights 0.2/0.8,          *)
(* refs 0.025/320, demand 10 (and 100, above the total capacity 60)         *)
ExampleRows ==
    <<[Qmax |-> 10, As |-> 4,  Cl |-> 27230, avail |-> 1],
      [Qmax |-> 50, As |-> 37, Cl |-> 25028, avail |-> 1]>>

ExampleWeights ==
    [w_As |-> 2, w_Cl |-> 8, As_ref |-> 25, Cl_ref |-> 32000]

InputsExample ==
    [impl : {"optimizer", "ui"}, w : {ExampleWeights}, demand : {10, 100},
     rows : {ExampleRows}]

(* three sources, so that a source can be partly filled between a full    *)
(* and an empty one                                                         *)
RowsC == [Qmax : {MaxQmax}, As : 0..MaxConc, Cl : {0}, avail : {0, 1}]

InputsC ==
    [impl : {"optimizer"}, w : WeightsA(Cl_ref_optimizer),
     demand : 0..MaxDemand, rows : [1..3 -> RowsC]]
    \cup
    [impl : {"ui"}, w : WeightsA(Cl_ref_ui),
     demand : 0..MaxDemand, rows : [1..3 -> RowsC]]

Inputs == InputsA \cup InputsB \cup InputsC \cup InputsExample

-----------------------------------------------------------------------------
(* State machine *)

NoChart == [x |-> <<>>, yAs |-> <<>>, x2 |-> <<>>, yCl |-> <<>>]

Init ==
    /\ inp \in Inputs
    /\ heap = [r \in {CallerRef, FreshRef} |->
                 IF r = CallerRef THEN [rows |-> inp.rows, score |-> <<>>]
                                  ELSE NoTable]
    /\ self_df = 0
    /\ pc = "idle"
    /\ res = NoResult
    /\ stages = <<>>
    /\ Ds = <<>>
    /\ sweep_i = 0
    /\ As_list = <<>>
    /\ Cl_list = <<>>
    /\ sweep_log = <<>>
    /\ chart = NoChart

(* WaterBlendOptimizer.__init__: self.df = df.copy(); _compute_scores() *)
Construct ==
    /\ pc = "idle"
    /\ inp.impl = "optimizer"
    /\ heap' = HeapAfterScoring(heap, inp.w)
    /\ self_df' = DfCopyRef(CallerRef)
    /\ pc' = "constructed"
    /\ UNCHANGED <<inp, res, stages, Ds, sweep_i, As_list, Cl_list,
                   sweep_log, chart>>

(* WaterBlendOptimizer.optimize(demand), inside app.py's try/except *)
Optimize ==
    /\ pc = "constructed"
    /\ \E o \in SolveOutcomes("optimizer", heap[self_df], inp.demand) :
          /\ res' = o
          /\ pc' = IF o.status = "returned" THEN "solved" ELSE "error"
    /\ UNCHANGED <<inp, heap, self_df, stages, Ds, sweep_i, As_list, Cl_list,
                   sweep_log, chart>>

(* app.py: unit operation, reverse osmosis, stage table *)
TreatmentTrain ==
    /\ pc = "solved"
    /\ inp.impl = "optimizer"
    /\ \E unit_op \in DOMAIN UNIT_OPERATIONS :
          stages' = StageTable(unit_op, res.As_final, res.Cl_final)
    /\ pc' = "done"
    /\ UNCHANGED <<inp, heap, self_df, res, Ds, sweep_i, As_list, Cl_list,
                   sweep_log, chart>>

(* optimize_blending(edited_df, demand), inside render_ui's try/except *)
OptimizeBlending ==
    /\ pc = "idle"
    /\ inp.impl = "ui"
    /\ LET h == HeapAfterScoring(heap, inp.w)
       IN  /\ heap' = h
           /\ \E o \in SolveOutcomes("ui", h[DfCopyRef(CallerRef)],
                                     inp.demand) :
                 /\ res' = o
                 /\ pc' = IF o.status = "returned" THEN "solved" ELSE "error"
    /\ UNCHANGED <<inp, self_df, stages, Ds, sweep_i, As_list, Cl_list,
                   sweep_log, chart>>

(* Ds = np.arange(10, int(edited_df["Qmax"].sum()), 2); As_list, Cl_list = [], [] *)
SweepBegin ==
    /\ pc = "solved"
    /\ inp.impl = "ui"
    /\ Ds' = Arange(SweepStart, SumQmax(heap[CallerRef].rows), SweepStride)
    /\ sweep_i' = 1
    /\ As_list' = <<>>
    /\ Cl_list' = <<>>
    /\ pc' = "sweep"
    /\ UNCHANGED <<inp, heap, self_df, res, stages, sweep_log, chart>>

(* one iteration of `for d in Ds: try: ... except: pass` *)
SweepStep ==
    /\ pc = "sweep"
    /\ sweep_i <= Len(Ds)
    /\ LET d == Ds[sweep_i]
           h == HeapAfterScoring(heap, UiDefaults)
       IN  /\ heap' = h
           /\ \E o \in SolveOutcomes("ui", h[DfCopyRef(CallerRef)], d) :
                 IF o.status = "returned"
                 THEN /\ As_list' = Append(As_list, o.As_final)
                      /\ Cl_list' = Append(Cl_list, o.Cl_final)
                      /\ sweep_i' = sweep_i + 1
                      /\ sweep_log' = Append(sweep_log,
                            [d |-> d, seen |-> h[CallerRef].rows,
                             status |-> o.status, lp_built |-> o.lp_built,
                             A |-> o.As_final, C |-> o.Cl_final])
                 ELSE /\ UNCHANGED <<As_list, Cl_list>>
                      /\ sweep_i' = NextIndexOnPass(sweep_i, Len(Ds))
                      /\ sweep_log' = Append(sweep_log,
                            [d |-> d, seen |-> h[CallerRef].rows,
                             status |-> o.status, lp_built |-> o.lp_built,
                             A |-> o.As_final, C |-> o.Cl_final])
    /\ UNCHANGED <<inp, self_df, pc, res, stages, Ds, chart>>

(* ax1.plot(Ds[:len(As_list)], As_list); ax2.plot(Ds[:len(Cl_list)], Cl_list) *)
SweepPlot ==
    /\ pc = "sweep"
    /\ sweep_i > Len(Ds)
    /\ chart' = [x   |-> ChartX(Ds, Len(As_list)), yAs |-> As_list,
                 x2  |-> ChartX(Ds, Len(Cl_list)), yCl |-> Cl_list]
    /\ pc' = "done"
    /\ UNCHANGED <<inp, heap, self_df, res, stages, Ds, sweep_i, As_list,
                   Cl_list, sweep_log>>

Next ==
    \/ Construct
    \/ Optimize
    \/ TreatmentTrain
    \/ OptimizeBlending
    \/ SweepBegin
    \/ SweepStep
    \/ SweepPlot

Spec == Init /\ [][Next]_vars

-----------------------------------------------------------------------------
(* Reference definitions used by the properties *)

Scores0 == ComputeScores(inp.rows, inp.w)

Qa0 == Qmax_available(inp.rows)

Sources == 1..Len(inp.rows)

ButtonSolved == res.status # "none"

(* a.num/a.den < b.num/b.den for den in {1, 10^6+1}, without overflow *)
ScoreLess(a, b) ==
    IF a.den = b.den THEN a.num < b.num
    ELSE IF a.den = 1 THEN a.num <= (b.num - 1) \div (EpsInv + 1)
    ELSE (a.num \div (EpsInv + 1)) < b.num

(* the reference greedy allocator: available sources by ascending score    *)
(* (lowest index first among equal scores), each filled to its capacity     *)
(* until the demand is met                                                  *)
RECURSIVE GreedyFill(_, _, _, _, _)
GreedyFill(rows, score, todo, remaining, q) ==
    IF todo = {} THEN q
    ELSE LET s == CHOOSE c \in todo :
                    \A t \in todo :
                       /\ ~ScoreLess(score[t], score[c])
                       /\ (~ScoreLess(score[c], score[t]) => c <= t)
             x == IF rows[s].Qmax < remaining THEN rows[s].Qmax
                                              ELSE remaining
         IN  GreedyFill(rows, score, todo \ {s}, remaining - x,
                        [q EXCEPT ![s] = x])

Greedy(rows, score, demand) ==
    GreedyFill(rows, score, {i \in 1..Len(rows) : rows[i].avail = 1},
               demand, [i \in 1..Len(rows) |-> 0])

(* the LP of the button solve has exactly one optimal allocation *)
UniqueOptimum ==
    Cardinality(OptimalAllocs(UpBounds(inp.impl, inp.rows), Scores0,
                              inp.demand)) = 1

CostEq(c1, c2) == ~CostLess(c1, c2) /\ ~CostLess(c2, c1)

SweepRan == inp.impl = "ui" /\ pc \in {"sweep", "done"}

SweepDone == inp.impl = "ui" /\ pc = "done"

Succeeded(e) == e.status = "returned"

-----------------------------------------------------------------------------
(* C1: in every returned allocation, every source whose availability flag  *)
(* is 0 has flow exactly 0 (both solvers, all weights, every accepted       *)
(* demand).  Fails for WaterBlendOptimizer.optimize, whose variables are    *)
(* bounded by Qmax and not by Qmax*avail.                                   *)
C1_UnavailableZero ==
    res.status = "returned" =>
        \A i \in Sources : inp.rows[i].avail = 0 => res.Q_opt[i] = 0

(* C1 on the inputs whose LP has exactly one optimal allocation, where the *)
(* returned allocation does not depend on how the solver breaks ties:       *)
(* every source whose availability flag is 0 has flow exactly 0             *)
C1_UnavailableZeroForced ==
    (res.status = "returned" /\ UniqueOptimum) =>
        \A i \in Sources : inp.rows[i].avail = 0 => res.Q_opt[i] = 0

(* the same statement restricted to optimize_blending, which holds *)
C1_UnavailableZeroUi ==
    (res.status = "returned" /\ inp.impl = "ui") =>
        \A i \in Sources : inp.rows[i].avail = 0 => res.Q_opt[i] = 0

(* C2: for every demand d with 0 < d <= available capacity an allocation   *)
(* is returned, every flow lies in [0, Qmax] and the flows sum to exactly d *)
C2_FlowsMeetDemand ==
    (ButtonSolved /\ 0 < inp.demand /\ inp.demand <= Qa0) =>
        /\ res.status = "returned"
        /\ Len(res.Q_opt) = Len(inp.rows)
        /\ \A i \in Sources :
              0 <= res.Q_opt[i] /\ res.Q_opt[i] <= inp.rows[i].Qmax
        /\ SumSeq(res.Q_opt) = inp.demand

C2_Witness ==
    /\ res.status = "returned"
    /\ inp.demand > 0
    /\ \E i, j \in Sources :
          /\ i # j
          /\ res.Q_opt[i] = inp.rows[i].Qmax
          /\ 0 < res.Q_opt[j] /\ res.Q_opt[j] < inp.rows[j].Qmax

(* C3: a demand strictly above sum(Qmax*avail) fails with the capacity     *)
(* error before the LP is built, with no allocation and no concentrations;  *)
(* a demand equal to that sum is not rejected.  Covers the button solve and *)
(* every solve of the sweep.                                                *)
C3_CapacityCheck ==
    /\ ButtonSolved =>
          /\ inp.demand > Qa0 =>
                /\ res.status = "ValueError"
                /\ ~res.lp_built /\ ~res.divided
                /\ res.Q_opt = <<>>
                /\ pc = "error"
          /\ inp.demand <= Qa0 => res.status # "ValueError"
    /\ \A k \in 1..Len(sweep_log) :
          /\ sweep_log[k].d > Qa0 =>
                sweep_log[k].status = "ValueError" /\ ~sweep_log[k].lp_built
          /\ sweep_log[k].d <= Qa0 => sweep_log[k].status # "ValueError"

C3_Witness ==
    /\ res.status = "ValueError"
    /\ ~res.lp_built
    /\ inp.demand = Qa0 + 1
    /\ Qa0 > 0

C3_WitnessEqual ==
    /\ res.status = "returned"
    /\ inp.demand = Qa0
    /\ Qa0 > 0

(* C4: with demand exactly 0 the solve ends in an explicitly raised        *)
(* UndefinedConcentration and never divides by the zero total flow.         *)
(* The code has no such guard: it divides by Qt = 0.                        *)
C4_ZeroDemandUndefined ==
    (ButtonSolved /\ inp.demand = 0) =>
        /\ res.status = "UndefinedConcentration"
        /\ ~(res.divided /\ res.Qt = 0)

(* C5: the returned allocation is a cheapest-first fill: a source with     *)
(* positive flow has every strictly cheaper source filled to its capacity   *)
(* (Qmax if available, 0 if not), its total cost equals that of the         *)
(* reference greedy allocator, and the two-source example yields            *)
(* {W1: 10, W2: 0}.  Fails for WaterBlendOptimizer.optimize, which draws    *)
(* from unavailable sources (see C1).                                       *)
C5_CheapestFirst ==
    res.status = "returned" =>
        /\ \A s, t \in Sources :
              (res.Q_opt[t] > 0 /\ ScoreLess(Scores0[s], Scores0[t])) =>
                  res.Q_opt[s] = inp.rows[s].Qmax * inp.rows[s].avail
        /\ CostEq(Cost(res.Q_opt, Scores0),
                  Cost(Greedy(inp.rows, Scores0, inp.demand), Scores0))
        /\ (inp.rows = ExampleRows /\ inp.demand = 10) =>
              res.Q_opt = <<10, 0>>

(* C5 on the inputs whose LP has exactly one optimal allocation: the       *)
(* returned allocation is a cheapest-first fill whose total cost equals     *)
(* that of the reference greedy allocator over the available sources        *)
C5_CheapestFirstForced ==
    (res.status = "returned" /\ UniqueOptimum) =>
        /\ \A s, t \in Sources :
              (res.Q_opt[t] > 0 /\ ScoreLess(Scores0[s], Scores0[t])) =>
                  res.Q_opt[s] = inp.rows[s].Qmax * inp.rows[s].avail
        /\ CostEq(Cost(res.Q_opt, Scores0),
                  Cost(Greedy(inp.rows, Scores0, inp.demand), Scores0))
        /\ (inp.rows = ExampleRows /\ inp.demand = 10) =>
              res.Q_opt = <<10, 0>>

(* the same statement restricted to optimize_blending, which holds *)
C5_CheapestFirstUi ==
    (res.status = "returned" /\ inp.impl = "ui") =>
        /\ \A s, t \in Sources :
              (res.Q_opt[t] > 0 /\ ScoreLess(Scores0[s], Scores0[t])) =>
                  res.Q_opt[s] = inp.rows[s].Qmax * inp.rows[s].avail
        /\ CostEq(Cost(res.Q_opt, Scores0),
                  Cost(Greedy(inp.rows, Scores0, inp.demand), Scores0))
        /\ (inp.rows = ExampleRows /\ inp.demand = 10) =>
              res.Q_opt = <<10, 0>>

(* C6: the sweep visits the demand values in increasing order; a failing   *)
(* point adds no entry and does not stop the sweep; at the end every value  *)
(* of the range was attempted and the series length is the number of        *)
(* values that solved                                                       *)
C6_SweepSkipsFailures ==
    SweepRan =>
        /\ Len(sweep_log) <= Len(Ds)
        /\ sweep_i = Len(sweep_log) + 1
        /\ \A k \in 1..Len(sweep_log) : sweep_log[k].d = Ds[k]
        /\ \A k \in 1..(Len(Ds) - 1) : Ds[k] < Ds[k + 1]
        /\ Len(As_list) = Cardinality({k \in 1..Len(sweep_log) :
                                          Succeeded(sweep_log[k])})
        /\ Len(Cl_list) = Len(As_list)
        /\ pc = "done" => Len(sweep_log) = Len(Ds)

C6_Witness ==
    /\ SweepDone
    /\ Len(As_list) >= 1
    /\ \E k \in 1..(Len(sweep_log) - 1) :
          /\ ~Succeeded(sweep_log[k])
          /\ sweep_log[k + 1].d > sweep_log[k].d

(* C7: the treatment train yields exactly three ordered stages: the blend, *)
(* the blend times (1-e1), and that times (1-e2), per contaminant with its  *)
(* own efficiencies; efficiency 0 leaves a concentration unchanged and      *)
(* efficiency 1 makes it 0                                                  *)
C7_TreatmentChain ==
    (inp.impl = "optimizer" /\ pc = "done") =>
        /\ Len(stages) = 3
        /\ stages[1].Etapa = "Mezcla de pozos"
        /\ stages[2].Etapa \in DOMAIN UNIT_OPERATIONS
        /\ stages[3].Etapa = "Osmosis inversa"
        /\ LET e1 == UNIT_OPERATIONS[stages[2].Etapa]
               e2 == RO_REJECTION
               CA == res.As_final
               CB == res.Cl_final
           IN  /\ stages[1].As = CA /\ stages[1].Cl = CB
               /\ stages[2].As = [num |-> CA.num * (One - e1.As),
                                  den |-> CA.den * One]
               /\ stages[2].Cl = [num |-> CB.num * (One - e1.Cl),
                                  den |-> CB.den * One]
               /\ stages[3].As =
                     [num |-> CA.num * (One - e1.As) * (One - e2.As),
                      den |-> CA.den * One * One]
               /\ stages[3].Cl =
                     [num |-> CB.num * (One - e1.Cl) * (One - e2.Cl),
                      den |-> CB.den * One * One]
               /\ e1.As = 0 => RatEq(stages[2].As, stages[1].As)
               /\ e1.Cl = 0 => RatEq(stages[2].Cl, stages[1].Cl)
               /\ e1.As = One => stages[2].As.num = 0
               /\ e1.Cl = One => stages[2].Cl.num = 0

C7_Witness ==
    /\ inp.impl = "optimizer"
    /\ pc = "done"
    /\ res.Qt > 0
    /\ res.As_final.num > 0 /\ res.Cl_final.num > 0
    /\ UNIT_OPERATIONS[stages[2].Etapa].As # UNIT_OPERATIONS[stages[2].Etapa].Cl
    /\ stages[3].As.num > 0 /\ stages[3].Cl.num > 0

(* C9: in the series handed to the chart the i-th concentrations are those *)
(* of the solve for the i-th demand value on the x axis: the skipped demand *)
(* values are a suffix of the range                                         *)
C9_SeriesPaired ==
    SweepDone =>
        LET ok == SelectSeq(sweep_log, Succeeded)
        IN  /\ Len(chart.x) = Len(chart.yAs)
            /\ Len(chart.x2) = Len(chart.yCl)
            /\ Len(ok) = Len(chart.yAs)
            /\ \A i \in 1..Len(ok) :
                  /\ chart.x[i] = ok[i].d /\ chart.yAs[i] = ok[i].A
                  /\ chart.x2[i] = ok[i].d /\ chart.yCl[i] = ok[i].C
                  /\ chart.x[i] = Ds[i]
            /\ \A j, k \in 1..Len(sweep_log) :
                  (j < k /\ ~Succeeded(sweep_log[j])) =>
                      ~Succeeded(sweep_log[k])

C9_Witness ==
    /\ SweepDone
    /\ Len(chart.yAs) >= 2
    /\ Len(chart.yAs) < Len(Ds)
    /\ \E i \in 1..Len(inp.rows) : inp.rows[i].avail = 0

(* C10: no solve changes the caller's table: it keeps its rows and gets no *)
(* score column, so every solve of a sweep sees the same registry           *)
C10_CallerUntouched ==
    /\ heap[CallerRef] = [rows |-> inp.rows, score |-> <<>>]
    /\ \A k \in 1..Len(sweep_log) : sweep_log[k].seen = inp.rows

C10_Witness ==
    /\ heap[FreshRef].score # <<>>
    /\ Len(sweep_log) >= 2
    /\ res.status = "returned"

C10_WitnessOptimizer ==
    /\ inp.impl = "optimizer"
    /\ pc \in {"solved", "error"}
    /\ heap[FreshRef].score # <<>>

====
